---- MODULE Spec2Model ----
(***************************************************************************)
(* rhino-update: privilege check, then `rpk update -y` and                 *)
(* `rpk cleanup -y` run one after the other, stopping at the first         *)
(* failure.  Model of src/sysadmin/rhino-update.rs.                        *)
(*                                                                         *)
(* An Option<T> of the source is a set with at most one element: {} is     *)
(* None and {v} is Some(v).                                                *)
(***************************************************************************)
EXTENDS FiniteSets, Integers, Sequences, TLC

VARIABLES
    uid,        \* effective user id of the process (env::uid())
    pc,         \* position of main / run
    step,       \* index of the run(..) call of the closure being executed
    launched,   \* commands handed to Command::status(), in call order
    running,    \* steps whose child process has been started and not reaped
    statuses,   \* ExitStatus of every reaped child, in order
    ioErr,      \* the io::Error carried by the closure's result, if any
    out,        \* what the process has printed on standard output
    exitCode    \* the exit code of the process once it has exited

vars == <<uid, pc, step, launched, running, statuses, ioErr, out, exitCode>>

\* ---- bounds of the environment ------------------------------------------
MaxUid == 2
MaxCode == 12
MaxSignal == 9

Uids == 0..MaxUid
\* exit codes a child can return: a low range and the top of the 8-bit range
ExitCodes == (0..MaxCode) \cup {255}
Signals == 1..MaxSignal
\* causes for which Command::status() fails to start the child
IoErrors == {"NotFound", "PermissionDenied"}

\* ExitStatus of a child that was started and has terminated
Statuses ==
    [kind : {"exited"}, n : ExitCodes] \cup [kind : {"signaled"}, n : Signals]

\* ---- the fixed steps (main, the closure) ----------------------------------
\* (the descriptions end in U+2026 in the source, written "..." here)
\* the steps of the closure, mutated: cleanup is run before update
StepsSwapped ==
    << [cmd |-> <<"rpk", "cleanup", "-y">>,
        description |-> "Purging orphaned packages ..."],
       [cmd |-> <<"rpk", "update", "-y">>,
        description |-> "Updating all packages ..."] >>

Steps ==
    << [cmd |-> <<"rpk", "update", "-y">>,
        description |-> "Updating all packages ..."],
       [cmd |-> <<"rpk", "cleanup", "-y">>,
        description |-> "Purging orphaned packages ..."] >>

\* ---- helpers --------------------------------------------------------------
\* cmd.join(" ")
RECURSIVE join(_, _)
join(s, sep) ==
    IF s = <<>> THEN ""
    ELSE IF Len(s) = 1 THEN s[1]
    ELSE s[1] \o sep \o join(Tail(s), sep)

\* color_print!: one message on standard output
color_print(o, kind, detail) == Append(o, [kind |-> kind, detail |-> detail])

\* ExitStatus::success(), mutated: any normal termination counts as success
success_any_exit(st) == st.kind = "exited"

\* ExitStatus::success()
success(st) == st.kind = "exited" /\ st.n = 0

\* ExitStatus::code(), mutated: a signal is reported shell-style as 128+signal
code_shell_style(st) == IF st.kind = "exited" THEN {st.n} ELSE {128 + st.n}

\* ExitStatus::code(): None when the child was terminated by a signal
code(st) == IF st.kind = "exited" THEN {st.n} ELSE {}

\* Option::unwrap_or
unwrap_or(opt, default) == IF opt = {} THEN default ELSE CHOOSE v \in opt : TRUE

\* the exit code of a failed command, mutated: always 1
ExitCodeForAlwaysOne(st) == 1

\* status.code().unwrap_or(1)
ExitCodeFor(st) == unwrap_or(code(st), 1)

\* std::process::exit(c), and the return from main (c = 0)
Exit(c) == pc' = "exited" /\ exitCode' = {c}

\* ---- initial state --------------------------------------------------------
Init ==
    /\ uid \in Uids
    /\ pc = "check_uid"
    /\ step = 1
    /\ launched = <<>>
    /\ running = {}
    /\ statuses = <<>>
    /\ ioErr = {}
    /\ out = <<>>
    /\ exitCode = {}

\* ---- main: the privilege guard --------------------------------------------
\* mutated: the error is printed but the process is not terminated
CheckPrivilegeNoExit ==
    /\ pc = "check_uid"
    /\ IF uid # 0
       THEN /\ out' = color_print(out, "NotRoot", {})
            /\ pc' = "banner"
            /\ UNCHANGED exitCode
       ELSE /\ pc' = "banner"
            /\ UNCHANGED <<out, exitCode>>
    /\ UNCHANGED <<uid, step, launched, running, statuses, ioErr>>

CheckPrivilege ==
    /\ pc = "check_uid"
    /\ IF uid # 0
       THEN /\ out' = color_print(out, "NotRoot", {})
            /\ Exit(1)
       ELSE /\ pc' = "banner"
            /\ UNCHANGED <<out, exitCode>>
    /\ UNCHANGED <<uid, step, launched, running, statuses, ioErr>>

\* ---- main: the banner -----------------------------------------------------
\* mutated: the banner is not printed
PrintBannerSkipped ==
    /\ pc = "banner"
    /\ pc' = "run_print"
    /\ step' = 1
    /\ UNCHANGED <<uid, out, launched, running, statuses, ioErr, exitCode>>

PrintBanner ==
    /\ pc = "banner"
    /\ out' = color_print(out, "Banner", {})
    /\ pc' = "run_print"
    /\ step' = 1
    /\ UNCHANGED <<uid, launched, running, statuses, ioErr, exitCode>>

\* ---- run: description and command line ------------------------------------
RunPrint ==
    /\ pc = "run_print"
    /\ LET d == Steps[step].description
           o == IF d # "" THEN color_print(out, "Description", {d}) ELSE out
       IN out' = color_print(o, "CommandLine", {join(Steps[step].cmd, " ")})
    /\ pc' = "run_spawn"
    /\ UNCHANGED <<uid, step, launched, running, statuses, ioErr, exitCode>>

\* ---- run: Command::status(), starting the child ---------------------------
\* A failure to start is returned by `?` out of run and out of the closure,
\* so no later run(..) of the closure is called.
RunSpawn ==
    /\ pc = "run_spawn"
    /\ launched' = Append(launched, Steps[step].cmd)
    /\ \/ /\ running' = running \cup {step}
          /\ pc' = "run_wait"
          /\ UNCHANGED ioErr
       \/ \E e \in IoErrors :
            /\ ioErr' = {e}
            /\ pc' = "result_err"
            /\ UNCHANGED running
    /\ UNCHANGED <<uid, step, statuses, out, exitCode>>

\* ---- run: Command::status(), blocking until the child terminates ----------
RunWait ==
    /\ pc = "run_wait"
    /\ \E st \in Statuses :
         statuses' = Append(statuses, st)
    /\ running' = running \ {step}
    /\ pc' = "run_status"
    /\ UNCHANGED <<uid, step, launched, ioErr, out, exitCode>>

\* ---- run: the status check ------------------------------------------------
\* mutated: a failed command is reported and the next step runs anyway
RunStatusContinue ==
    /\ pc = "run_status"
    /\ LET st == statuses[Len(statuses)] IN
         /\ out' = IF success(st) THEN out
                   ELSE color_print(out, "CommandFailed", code(st))
         /\ IF step < Len(Steps)
            THEN /\ step' = step + 1
                 /\ pc' = "run_print"
                 /\ UNCHANGED exitCode
            ELSE IF success(st)
                 THEN /\ pc' = "success"
                      /\ UNCHANGED <<step, exitCode>>
                 ELSE /\ Exit(ExitCodeFor(st))
                      /\ UNCHANGED step
    /\ UNCHANGED <<uid, launched, running, statuses, ioErr>>

\* mutated: a failed command is reported and the same step is run again
RunStatusRetry ==
    /\ pc = "run_status"
    /\ LET st == statuses[Len(statuses)] IN
         IF ~success(st)
         THEN /\ out' = color_print(out, "CommandFailed", code(st))
              /\ IF Len(launched) < Len(Steps)
                 THEN pc' = "run_print" /\ UNCHANGED exitCode
                 ELSE Exit(ExitCodeFor(st))
              /\ UNCHANGED step
         ELSE /\ IF step < Len(Steps)
                 THEN step' = step + 1 /\ pc' = "run_print"
                 ELSE pc' = "success" /\ UNCHANGED step
              /\ UNCHANGED <<out, exitCode>>
    /\ UNCHANGED <<uid, launched, running, statuses, ioErr>>

\* mutated: a failed command is reported and an error is returned to main
\* instead of the process being terminated here
RunStatusReturnErr ==
    /\ pc = "run_status"
    /\ LET st == statuses[Len(statuses)] IN
         IF ~success(st)
         THEN /\ out' = color_print(out, "CommandFailed", code(st))
              /\ pc' = "result_err"
              /\ UNCHANGED <<step, exitCode>>
         ELSE /\ IF step < Len(Steps)
                 THEN step' = step + 1 /\ pc' = "run_print"
                 ELSE pc' = "success" /\ UNCHANGED step
              /\ UNCHANGED <<out, exitCode>>
    /\ UNCHANGED <<uid, launched, running, statuses, ioErr>>

\* On failure: message and process exit.  On success: Ok(()) to the closure,
\* which calls the next run(..) or returns Ok(()) to main.
RunStatus ==
    /\ pc = "run_status"
    /\ LET st == statuses[Len(statuses)] IN
         IF ~success(st)
         THEN /\ out' = color_print(out, "CommandFailed", code(st))
              /\ Exit(ExitCodeFor(st))
              /\ UNCHANGED step
         ELSE /\ IF step < Len(Steps)
                 THEN step' = step + 1 /\ pc' = "run_print"
                 ELSE pc' = "success" /\ UNCHANGED step
              /\ UNCHANGED <<out, exitCode>>
    /\ UNCHANGED <<uid, launched, running, statuses, ioErr>>

\* ---- main: the closure returned Err(e) ------------------------------------
\* mutated: the error is printed, the exit is missing, main falls through
MainErrFallthrough ==
    /\ pc = "result_err"
    /\ out' = color_print(out, "Error", ioErr)
    /\ pc' = "success"
    /\ UNCHANGED <<uid, step, launched, running, statuses, ioErr, exitCode>>

MainErr ==
    /\ pc = "result_err"
    /\ out' = color_print(out, "Error", ioErr)
    /\ Exit(1)
    /\ UNCHANGED <<uid, step, launched, running, statuses, ioErr>>

\* ---- main: the closure returned Ok(()) ------------------------------------
MainSuccess ==
    /\ pc = "success"
    /\ out' = color_print(out, "Success", {})
    /\ Exit(0)
    /\ UNCHANGED <<uid, step, launched, running, statuses, ioErr>>

Next ==
    \/ CheckPrivilege
    \/ PrintBanner
    \/ RunPrint
    \/ RunSpawn
    \/ RunWait
    \/ RunStatus
    \/ MainErr
    \/ MainSuccess

Spec == Init /\ [][Next]_vars

\* The process is sequential and always scheduled, and every started child
\* terminates: whatever step is possible is eventually taken.
LiveSpec == Init /\ [][Next]_vars /\ WF_vars(Next)

\* ==== properties ===========================================================
UpdateCmd == <<"rpk", "update", "-y">>
CleanupCmd == <<"rpk", "cleanup", "-y">>
StatusZero == [kind |-> "exited", n |-> 0]

Exited == exitCode # {}
HasKind(k) == \E i \in DOMAIN out : out[i].kind = k
ErrorKinds == {"NotRoot", "CommandFailed", "Error"}
ErrorCount == Cardinality({i \in DOMAIN out : out[i].kind \in ErrorKinds})
LastOut == out[Len(out)]
BothSucceeded == uid = 0 /\ statuses = <<StatusZero, StatusZero>>

TypeOK ==
    /\ uid \in Uids
    /\ pc \in {"check_uid", "banner", "run_print", "run_spawn", "run_wait",
               "run_status", "result_err", "success", "exited"}
    /\ step \in DOMAIN Steps
    /\ running \subseteq DOMAIN Steps
    /\ \A i \in DOMAIN statuses : statuses[i] \in Statuses
    /\ ioErr \subseteq IoErrors
    /\ (pc = "exited") = (exitCode # {})

\* C1: on a run whose effective user id is not 0 no external command is ever
\* launched, and the process exits with code 1 as its first step: it is
\* either still at the privilege check or has exited with code 1.
C1_NonRootExitsOneWithoutLaunch ==
    uid # 0 =>
        /\ launched = <<>>
        /\ running = {}
        /\ statuses = <<>>
        /\ pc \in {"check_uid", "exited"}
        /\ (pc = "exited" => exitCode = {1})

C1_Witness == uid # 0 /\ exitCode = {1} /\ launched = <<>>

\* C2: on a privileged run where both commands were started and both
\* returned status 0, exactly `rpk update -y` then `rpk cleanup -y` were
\* launched, once each, and the process goes on to exit with code 0.
C2_SuccessfulRun ==
    /\ [](BothSucceeded =>
            /\ launched = <<UpdateCmd, CleanupCmd>>
            /\ ioErr = {}
            /\ (Exited => exitCode = {0}))
    /\ (BothSucceeded ~> exitCode = {0})

C2_Witness ==
    BothSucceeded /\ exitCode = {0} /\ launched = <<UpdateCmd, CleanupCmd>>

\* C3: on a privileged run where the first command returns a non-zero code c,
\* the second command is never launched and the process exits with c: it is
\* at the status check of the first step or has exited with exactly c.
C3_FirstFailurePassesThrough ==
    (statuses # <<>> /\ statuses[1].kind = "exited" /\ statuses[1].n # 0) =>
        /\ uid = 0
        /\ launched = <<UpdateCmd>>
        /\ Len(statuses) = 1
        /\ pc \in {"run_status", "exited"}
        /\ (pc = "exited" => exitCode = {statuses[1].n})

C3_Witness ==
    /\ statuses = <<[kind |-> "exited", n |-> 3]>>
    /\ exitCode = {3}
    /\ launched = <<UpdateCmd>>

\* C4: on a privileged run where the first command returns 0 and the second
\* returns a non-zero code c, the process exits with exactly c.
C4_SecondFailurePassesThrough ==
    (/\ Len(statuses) = 2
     /\ statuses[1] = StatusZero
     /\ statuses[2].kind = "exited"
     /\ statuses[2].n # 0) =>
        /\ uid = 0
        /\ pc \in {"run_status", "exited"}
        /\ (pc = "exited" => exitCode = {statuses[2].n})

C4_Witness ==
    /\ statuses = <<StatusZero, [kind |-> "exited", n |-> 5]>>
    /\ exitCode = {5}

\* C5: when starting either command fails, the failed launch is the last
\* launch of the run (every earlier one was reaped with status 0), and the
\* process exits with code 1 after printing, as its last message, the error
\* with the underlying cause.
C5_LaunchFailure ==
    ioErr # {} =>
        /\ uid = 0
        /\ Len(launched) = Len(statuses) + 1
        /\ \A i \in DOMAIN statuses : statuses[i] = StatusZero
        /\ running = {}
        /\ pc \in {"result_err", "exited"}
        /\ (pc = "exited" =>
              /\ exitCode = {1}
              /\ LastOut.kind = "Error"
              /\ LastOut.detail = ioErr)

C5_Witness ==
    /\ ioErr = {"NotFound"}
    /\ launched = <<UpdateCmd, CleanupCmd>>
    /\ exitCode = {1}
    /\ LastOut.kind = "Error"

\* C6 as stated: neither the banner nor the success message is on standard
\* output of a run that ended with a non-zero exit code.
C6_BannerOnlyOnSuccess_Original ==
    (Exited /\ exitCode # {0}) => (~HasKind("Banner") /\ ~HasKind("Success"))

\* C6 amended: the success message is printed only on a run where both steps
\* completed and the exit code is 0, and on no failing path; the banner is
\* printed first on every privileged run, before any command is launched,
\* failing runs included, and never on a non-privileged run.
C6_SuccessOnlyOnSuccess_BannerWhenPrivileged ==
    /\ HasKind("Success") => (BothSucceeded /\ exitCode = {0})
    /\ (Exited /\ exitCode # {0}) => ~HasKind("Success")
    /\ HasKind("Banner") = (uid = 0 /\ pc \notin {"check_uid", "banner"})
    /\ launched # <<>> => out[1].kind = "Banner"
    /\ Cardinality({i \in DOMAIN out : out[i].kind = "Banner"}) <= 1

C6_Witness ==
    /\ uid = 0
    /\ Exited /\ exitCode # {0}
    /\ HasKind("Banner")
    /\ ~HasKind("Success")

\* C7: when the child of either step is terminated by a signal (no exit code
\* available), no later step is launched, and the process exits with code 1
\* after printing the command-failure message with no code.
C7_SignalledChildExitsOne ==
    \A i \in DOMAIN statuses :
        statuses[i].kind = "signaled" =>
            /\ i = Len(statuses)
            /\ Len(launched) = i
            /\ pc \in {"run_status", "exited"}
            /\ (pc = "exited" =>
                  /\ exitCode = {1}
                  /\ LastOut.kind = "CommandFailed"
                  /\ LastOut.detail = {})

C7_Witness ==
    /\ Len(statuses) = 2
    /\ statuses[2] = [kind |-> "signaled", n |-> 9]
    /\ exitCode = {1}
    /\ LastOut.kind = "CommandFailed"

\* C8: steps are launched in declared order, none twice, a step only after
\* every earlier step was launched, reaped and returned status 0, and at
\* most one child is running at any time, the one launched last.
C8_StrictOrderNoRetry ==
    /\ Len(launched) <= 2
    /\ \A i \in DOMAIN launched : launched[i] = <<UpdateCmd, CleanupCmd>>[i]
    /\ \A i, j \in DOMAIN launched : launched[i] = launched[j] => i = j
    /\ \A i \in DOMAIN launched :
         \A j \in 1..(i - 1) : j <= Len(statuses) /\ statuses[j] = StatusZero
    /\ Len(statuses) <= Len(launched)
    /\ Cardinality(running) <= 1
    /\ running \subseteq {Len(launched)}
    /\ running # {} => Len(statuses) = Len(launched) - 1

C8_Witness ==
    /\ launched = <<UpdateCmd, CleanupCmd>>
    /\ running = {2}
    /\ statuses = <<StatusZero>>

\* C9: a run that ended with a non-zero exit code has printed exactly one
\* error message; main's error path is entered only with a launch error and
\* before any error message, so a command failure is reported once, by run.
C9_ExactlyOneErrorMessage ==
    /\ (Exited /\ exitCode # {0}) => ErrorCount = 1
    /\ pc = "result_err" => (ioErr # {} /\ ErrorCount = 0)
    /\ HasKind("CommandFailed") => (~HasKind("Error") /\ ioErr = {})
    /\ HasKind("Error") => ioErr # {}
    /\ ~Exited => ErrorCount = 0

C9_Witness ==
    /\ Exited
    /\ exitCode # {0}
    /\ HasKind("CommandFailed")
    /\ ErrorCount = 1

\* position of the run in the linear order of its states
Rank ==
    CASE pc = "check_uid" -> 0
      [] pc = "banner" -> 1
      [] pc = "run_print" -> 4 * step
      [] pc = "run_spawn" -> 4 * step + 1
      [] pc = "run_wait" -> 4 * step + 2
      [] pc = "run_status" -> 4 * step + 3
      [] pc \in {"result_err", "success"} -> 4 * (Len(Steps) + 1)
      [] pc = "exited" -> 4 * (Len(Steps) + 1) + 1

\* C10: the exit code is 0 exactly when the caller is privileged and both
\* commands were launched and returned 0, and is non-zero on every other
\* path; every step moves the run forward, none is taken after the exit, and
\* with every launched child terminating the run reaches the exit.
C10_ExitZeroIffFullSuccess ==
    /\ [](Exited =>
            (exitCode = {0}) =
                (/\ BothSucceeded
                 /\ launched = <<UpdateCmd, CleanupCmd>>
                 /\ ioErr = {}))
    /\ [][~Exited /\ Rank' > Rank]_vars
    /\ <>Exited

C10_Witness ==
    /\ exitCode = {0}
    /\ BothSucceeded
    /\ launched = <<UpdateCmd, CleanupCmd>>

====
